---- MODULE Spec2Model ----
(***************************************************************************)
(* Steinhart-Hart thermistor conversion: steinhart_hart.py (module         *)
(* functions, class Abc, command line) and shh.py (module functions).      *)
(*                                                                         *)
(* Numbers.  The code computes in Python floats and numpy float64.  Here a *)
(* number is a decimal floating point value with 8 significant digits and  *)
(* the exponent range of a float64: a record                               *)
(*     [k, s, m, e, np]                                                    *)
(* k = "fin"  : the value s * m * 10^e, s in {1,-1}, 10^7 <= m < 10^8      *)
(* k = "zero" : the signed zero s * 0                                      *)
(* k = "inf"  : the signed infinity                                        *)
(* k = "nan"  : not a number                                               *)
(* k = an exception name : the Python exception the evaluation raised      *)
(* np is TRUE for a numpy float64 and FALSE for a Python float: the two    *)
(* differ in division by zero and in an overflowing power (Python raises,  *)
(* numpy returns inf or nan with a warning).                               *)
(***************************************************************************)
EXTENDS Integers, Sequences, FiniteSets, TLC

V(k, s, m, e, np) == [k |-> k, s |-> s, m |-> m, e |-> e, np |-> np]
NaN(np) == V("nan", 1, 0, 0, np)
Inf(s, np) == V("inf", s, 0, 0, np)
Zero(s, np) == V("zero", s, 0, 0, np)
Raise(x) == V(x, 0, 0, 0, FALSE)
Exceptions == {"ZeroDivisionError", "OverflowError", "AttributeError"}
IsExc(v) == v.k \in Exceptions
IsFin(v) == v.k = "fin"
AsNp(v) == IF IsExc(v) THEN v ELSE [v EXCEPT !.np = TRUE]

Abs(n) == IF n < 0 THEN -n ELSE n
Sgn(n) == IF n < 0 THEN -1 ELSE 1

NumDigits(n) ==
  IF n < 10 THEN 1 ELSE IF n < 100 THEN 2 ELSE IF n < 1000 THEN 3
  ELSE IF n < 10000 THEN 4 ELSE IF n < 100000 THEN 5
  ELSE IF n < 1000000 THEN 6 ELSE IF n < 10000000 THEN 7
  ELSE IF n < 100000000 THEN 8 ELSE IF n < 1000000000 THEN 9 ELSE 10

\* The float64 range: above 1.7976931e308 a result overflows to inf, below
\* 4.9406564e-324 it underflows to zero.
Range(s, m, e, np) ==
  IF e + 7 > 308 \/ (e + 7 = 308 /\ m > 17976931) THEN Inf(s, np)
  ELSE IF e + 7 < -324 \/ (e + 7 = -324 /\ m < 49406564) THEN Zero(s, np)
  ELSE V("fin", s, m, e, np)

\* n / u for integers n >= 0 and u > 0, rounded to nearest (ties to even).
RoundHalfEven(n, u) ==
  IF 2 * (n % u) > u \/ (2 * (n % u) = u /\ (n \div u) % 2 = 1)
    THEN n \div u + 1
    ELSE n \div u

\* s * q * 10^e for q of at most 8 digits after rounding, or 10^8.
Carry(s, q, e, np) ==
  Range(s, IF q = 100000000 THEN 10000000 ELSE q,
        IF q = 100000000 THEN e + 1 ELSE e, np)

\* s * n * 10^e for an integer n > 0 of d digits.
RoundTo(s, n, e, np, d) ==
  IF d <= 8 THEN Range(s, n * 10^(8 - d), e - (8 - d), np)
  ELSE Carry(s, RoundHalfEven(n, 10^(d - 8)), e + (d - 8), np)

\* s * n * 10^e for an integer n > 0, rounded to nearest (ties to even).
Round(s, n, e, np) == RoundTo(s, n, e, np, NumDigits(n))

\* A Python float literal m * 10^e, and a Python int used in float arithmetic.
F(m, e) == IF m = 0 THEN Zero(1, FALSE) ELSE Round(Sgn(m), Abs(m), e, FALSE)
I(n) == F(n, 0)

fneg(x) == IF IsExc(x) \/ x.k = "nan" THEN x ELSE [x EXCEPT !.s = -x.s]

\* The exact sum, scaled by 10^e.
AddSum(sum, e, np) ==
  IF sum = 0 THEN Zero(1, np) ELSE Round(Sgn(sum), Abs(sum), e, np)

\* hi + lo for finite numbers with hi.e >= lo.e.
AddAligned(hi, lo, np) ==
  IF hi.e - lo.e > 9 THEN [hi EXCEPT !.np = np]
  ELSE AddSum(hi.s * hi.m * 10 + lo.s * ((lo.m * 10) \div 10^(hi.e - lo.e)),
              hi.e - 1, np)

AddFin(x, y, np) ==
  IF x.e >= y.e THEN AddAligned(x, y, np) ELSE AddAligned(y, x, np)

AddNum(x, y, np) ==
  IF x.k = "nan" \/ y.k = "nan" THEN NaN(np)
  ELSE IF x.k = "inf" /\ y.k = "inf"
    THEN (IF x.s = y.s THEN Inf(x.s, np) ELSE NaN(np))
  ELSE IF x.k = "inf" THEN Inf(x.s, np)
  ELSE IF y.k = "inf" THEN Inf(y.s, np)
  ELSE IF x.k = "zero" /\ y.k = "zero"
    THEN Zero(IF x.s = -1 /\ y.s = -1 THEN -1 ELSE 1, np)
  ELSE IF x.k = "zero" THEN [y EXCEPT !.np = np]
  ELSE IF y.k = "zero" THEN [x EXCEPT !.np = np]
  ELSE AddFin(x, y, np)

\* x + y
fadd(x, y) ==
  IF IsExc(x) THEN x ELSE IF IsExc(y) THEN y
  ELSE AddNum(x, y, x.np \/ y.np)

\* x - y
fsub(x, y) == fadd(x, fneg(y))

\* s * (hh * 10^8 + t * 10^4) * 10^e, for the product's high part hh and
\* middle part t.
MulRound(s, hh, t, e, np) ==
  Round(s,
        IF hh < 10000000 THEN hh * 100 + t \div 100 ELSE hh * 10 + t \div 1000,
        IF hh < 10000000 THEN e + 6 ELSE e + 7,
        np)

\* The product of the mantissas h1 * 10^4 + l1 and h2 * 10^4 + l2.
MulParts(s, h1, l1, h2, l2, e, np) ==
  MulRound(s, h1 * h2, h1 * l2 + l1 * h2 + (l1 * l2) \div 10000, e, np)

MulFin(x, y, np) ==
  MulParts(x.s * y.s, x.m \div 10000, x.m % 10000, y.m \div 10000,
           y.m % 10000, x.e + y.e, np)

MulNum(x, y, np) ==
  IF x.k = "nan" \/ y.k = "nan" THEN NaN(np)
  ELSE IF x.k = "inf" \/ y.k = "inf"
    THEN (IF x.k = "zero" \/ y.k = "zero" THEN NaN(np)
          ELSE Inf(x.s * y.s, np))
  ELSE IF x.k = "zero" \/ y.k = "zero" THEN Zero(x.s * y.s, np)
  ELSE MulFin(x, y, np)

\* x * y
fmul(x, y) ==
  IF IsExc(x) THEN x ELSE IF IsExc(y) THEN y
  ELSE MulNum(x, y, x.np \/ y.np)

\* Long division: n more digits of the quotient q, remainder r, divisor d.
RECURSIVE LongDiv(_, _, _, _)
LongDiv(q, r, d, n) ==
  IF n = 0 THEN <<q, r>>
  ELSE LongDiv(q * 10 + (r * 10) \div d, (r * 10) % d, d, n - 1)

\* The quotient from its first digits q8 = <<quotient, remainder>>: one
\* more digit where the quotient of the mantissas is below 1.
DivRound(s, q8, d, e, np) ==
  Round(s,
        IF q8[1] < 100000000 THEN LongDiv(q8[1], q8[2], d, 1)[1] ELSE q8[1],
        IF q8[1] < 100000000 THEN e - 9 ELSE e - 8,
        np)

DivFin(x, y, np) ==
  DivRound(x.s * y.s, LongDiv(x.m \div y.m, x.m % y.m, y.m, 8), y.m,
           x.e - y.e, np)

\* A division that never raises.
DivQuiet(x, y, np) ==
  IF x.k = "nan" \/ y.k = "nan" THEN NaN(np)
  ELSE IF y.k = "zero"
    THEN (IF x.k = "zero" THEN NaN(np) ELSE Inf(x.s * y.s, np))
  ELSE IF x.k = "inf"
    THEN (IF y.k = "inf" THEN NaN(np) ELSE Inf(x.s * y.s, np))
  ELSE IF y.k = "inf" \/ x.k = "zero" THEN Zero(x.s * y.s, np)
  ELSE DivFin(x, y, np)

\* x / y for numbers: a Python float divided by a zero Python float raises
\* ZeroDivisionError; with a numpy operand the result is inf or nan.
DivNum(x, y, np) ==
  IF y.k = "zero" /\ ~np THEN Raise("ZeroDivisionError")
  ELSE IF x.k = "nan" \/ y.k = "nan" THEN NaN(np)
  ELSE IF y.k = "zero"
    THEN (IF x.k = "zero" THEN NaN(np) ELSE Inf(x.s * y.s, np))
  ELSE IF x.k = "inf"
    THEN (IF y.k = "inf" THEN NaN(np) ELSE Inf(x.s * y.s, np))
  ELSE IF y.k = "inf" \/ x.k = "zero" THEN Zero(x.s * y.s, np)
  ELSE DivFin(x, y, np)

\* x / y
fdiv(x, y) ==
  IF IsExc(x) THEN x ELSE IF IsExc(y) THEN y
  ELSE DivNum(x, y, x.np \/ y.np)

\* The power p of x: a Python float raises OverflowError where the result
\* of a finite operand overflows; numpy returns inf.
PowCheck(p, x) ==
  IF ~IsExc(p) /\ p.k = "inf" /\ x.k = "fin" /\ ~p.np
    THEN Raise("OverflowError")
    ELSE p

\* x ** n for an int n >= 1
RECURSIVE fpow(_, _)
fpow(x, n) == IF n = 1 THEN x ELSE PowCheck(fmul(fpow(x, n - 1), x), x)

\* x < y for numbers that are neither nan nor exceptions.
Key(x) ==
  IF x.k = "zero" THEN <<0, 0, 0>>
  ELSE IF x.k = "inf" THEN <<x.s, 1000, 0>>
  ELSE <<x.s, x.s * x.e, x.s * x.m>>
KeyLess(a, b) ==
  a[1] < b[1] \/ (a[1] = b[1] /\ (a[2] < b[2] \/ (a[2] = b[2] /\ a[3] < b[3])))
flt(x, y) == KeyLess(Key(x), Key(y))
fle(x, y) == ~flt(y, x)

\* The largest g in lo..hi with F(g) <= n, for F the square or the cube.
RECURSIVE RootSearch(_, _, _, _)
RootSearch(lo, hi, n, cube) ==
  IF lo >= hi THEN lo
  ELSE LET mid == (lo + hi + 1) \div 2
       IN IF (IF cube THEN mid * mid * mid ELSE mid * mid) <= n
            THEN RootSearch(mid, hi, n, cube)
            ELSE RootSearch(lo, mid - 1, n, cube)

\* Newton's iteration g := (g + x/g)/2, n times.
RECURSIVE SqrtNewton(_, _, _)
SqrtNewton(x, g, n) ==
  IF n = 0 \/ IsExc(g) THEN g
  ELSE SqrtNewton(x, fmul(F(5, -1), fadd(g, fdiv(x, g))), n - 1)

\* The first guess for the square root of m * 10^e: four digits.
SqrtGuess(m, e) ==
  Round(1, RootSearch(1, 31622, IF e % 2 = 1 THEN m * 10 ELSE m, FALSE),
        (IF e % 2 = 1 THEN e - 1 ELSE e) \div 2, TRUE)

\* np.sqrt: nan for a negative argument (numpy warns and returns).
fsqrt(x) ==
  IF IsExc(x) THEN x
  ELSE IF x.k = "nan" THEN NaN(TRUE)
  ELSE IF x.k = "zero" THEN Zero(x.s, TRUE)
  ELSE IF x.s = -1 THEN NaN(TRUE)
  ELSE IF x.k = "inf" THEN Inf(1, TRUE)
  ELSE SqrtNewton(AsNp(x), SqrtGuess(x.m, x.e), 3)

\* Newton's iteration g := (2g + x/g^2)/3, n times.
RECURSIVE CbrtNewton(_, _, _)
CbrtNewton(x, g, n) ==
  IF n = 0 \/ IsExc(g) THEN g
  ELSE CbrtNewton(x, fdiv(fadd(fmul(I(2), g), fdiv(x, fmul(g, g))), I(3)),
                  n - 1)

\* The first guess for the cube root of m * 10^(ee - 3): three digits.
CbrtGuess(m, ee) ==
  Round(1, RootSearch(1, 215, (m \div 1000) * 10^(ee % 3), TRUE),
        (ee - (ee % 3)) \div 3, TRUE)

\* np.cbrt: the real cube root, with the sign of its argument.
fcbrt(x) ==
  IF IsExc(x) THEN x
  ELSE IF x.k \in {"nan", "zero", "inf"} THEN AsNp(x)
  ELSE [CbrtNewton([AsNp(x) EXCEPT !.s = 1], CbrtGuess(x.m, x.e + 3), 4)
          EXCEPT !.s = x.s]

\* ln(10) and ln(2)
LN10 == F(23025851, -7)
LN2 == F(69314718, -8)

\* Horner's rule for 1 + z2/3 + z2^2/5 + ...: acc is the sum from the term
\* 1/(2i+3) on.
RECURSIVE LogSeries(_, _, _)
LogSeries(z2, i, acc) ==
  IF i < 0 \/ IsExc(acc) THEN acc
  ELSE LogSeries(z2, i - 1, fadd(fdiv(I(1), I(2 * i + 1)), fmul(z2, acc)))

\* The halvings j that bring the mantissa m into [0.707, 1.415) * 10^7.
Halvings(m) ==
  IF m < 14142136 THEN 0 ELSE IF m < 28284271 THEN 1
  ELSE IF m < 56568542 THEN 2 ELSE 3

\* k ln 10 + j ln 2 + 2 atanh z
LogSum(k, j, z) ==
  AsNp(fadd(fadd(fmul(I(k), LN10), fmul(I(j), LN2)),
            fmul(fmul(I(2), z),
                 LogSeries(fmul(z, z), 5, fdiv(I(1), I(13))))))

\* ln(f * 10^k * 2^j) = k ln 10 + j ln 2 + 2 atanh((f-1)/(f+1))
LogReduced(k, j, f) == LogSum(k, j, fdiv(fsub(f, I(1)), fadd(f, I(1))))

\* A logarithm that raises for an argument that is not positive.
LogRaising(x) ==
  IF IsExc(x) THEN x
  ELSE IF x.k = "nan" THEN NaN(TRUE)
  ELSE IF x.k = "zero" \/ x.s = -1 THEN Raise("ZeroDivisionError")
  ELSE IF x.k = "inf" THEN Inf(1, TRUE)
  ELSE LogReduced(x.e + 7, Halvings(x.m),
                  fdiv(V("fin", 1, x.m, -7, TRUE), I(2^Halvings(x.m))))

\* np.log: log(0) is -inf and the log of a negative number is nan (numpy
\* warns and returns; it does not raise).
flog(x) ==
  IF IsExc(x) THEN x
  ELSE IF x.k = "nan" THEN NaN(TRUE)
  ELSE IF x.k = "zero" THEN Inf(-1, TRUE)
  ELSE IF x.s = -1 THEN NaN(TRUE)
  ELSE IF x.k = "inf" THEN Inf(1, TRUE)
  ELSE LogReduced(x.e + 7, Halvings(x.m),
                  fdiv(V("fin", 1, x.m, -7, TRUE), I(2^Halvings(x.m))))

\* The integer nearest to a finite x with |x| < 10^8.
RoundInt(x) ==
  IF x.k = "zero" \/ -x.e > 9 THEN 0
  ELSE x.s * ((x.m + (10^(-x.e)) \div 2) \div 10^(-x.e))

\* Horner's rule for 1 + r + r^2/2! + ...: acc is 1 + r/(i+1) * (...).
RECURSIVE ExpSeries(_, _, _)
ExpSeries(r, i, acc) ==
  IF i < 1 \/ IsExc(acc) THEN acc
  ELSE ExpSeries(r, i - 1, fadd(I(1), fmul(fdiv(r, I(i)), acc)))

\* p * 10^k
Scale(p, k) == Range(1, p.m, p.e + k, TRUE)

\* exp(k ln 10 + r) = 10^k * exp r
ExpReduced(x, k) == Scale(ExpSeries(fsub(x, fmul(I(k), LN10)), 14, I(1)), k)

\* np.exp: overflows to inf and underflows to zero without raising.
fexp(x) ==
  IF IsExc(x) THEN x
  ELSE IF x.k = "nan" THEN NaN(TRUE)
  ELSE IF x.k = "zero" THEN AsNp(I(1))
  ELSE IF x.k = "inf" THEN (IF x.s = 1 THEN Inf(1, TRUE) ELSE Zero(1, TRUE))
  ELSE IF flt(F(710, 0), x) THEN Inf(1, TRUE)
  ELSE IF flt(x, F(-746, 0)) THEN Zero(1, TRUE)
  ELSE ExpReduced(x, RoundInt(fdiv(x, LN10)))

(***************************************************************************)
(* The program.                                                            *)
(***************************************************************************)

\* The abc argument left out, or passed as None.
None == <<>>

\* DEFAULT_ABC = (1.125e-3, 2.347e-4, 0.855e-7), in both modules.
DefaultTriple == <<F(1125, -6), F(2347, -7), F(855, -10)>>

\* A selection that ignores the abc argument.
SelectDefault(abc, dflt) == dflt

\* a, b, c = DEFAULT_ABC if abc is None else abc
Select(abc, dflt) == IF abc = None THEN dflt ELSE abc

\* steinhart_hart.temperature(r, abc): Kelvin.
temperature(r, abc, dflt) ==
  fdiv(I(1),
       fadd(fadd(Select(abc, dflt)[1], fmul(Select(abc, dflt)[2], flog(r))),
            fmul(Select(abc, dflt)[3], fpow(flog(r), 3))))

\* The exponent returned without np.exp.
InverseExponent(x, y) ==
  IF IsExc(y) THEN y
  ELSE fsub(fcbrt(fsub(y, fdiv(x, I(2)))), fcbrt(fadd(y, fdiv(x, I(2)))))

\* return np.exp(np.cbrt(y - x / 2) - np.cbrt(y + x / 2))
InverseR(x, y) ==
  IF IsExc(y) THEN y
  ELSE fexp(fsub(fcbrt(fsub(y, fdiv(x, I(2)))),
                 fcbrt(fadd(y, fdiv(x, I(2))))))

\* y without the division of x ** 2 by 4.
InverseYNoQuarter(x, b, c) ==
  IF IsExc(x) THEN x
  ELSE InverseR(x, fsqrt(fadd(fpow(fdiv(b, fmul(I(3), c)), 3), fpow(x, 2))))

\* y = np.sqrt((b / (3 * c)) ** 3 + x ** 2 / 4); the statements run in
\* order, so the first one that raises decides the exception.
InverseY(x, b, c) ==
  IF IsExc(x) THEN x
  ELSE InverseR(x, fsqrt(fadd(fpow(fdiv(b, fmul(I(3), c)), 3),
                              fdiv(fpow(x, 2), I(4)))))

\* x = (a - 1 / tk) / c, for the Kelvin temperature tk.
Inverse(tk, abc, dflt) ==
  InverseY(fdiv(fsub(Select(abc, dflt)[1], fdiv(I(1), tk)),
                Select(abc, dflt)[3]),
           Select(abc, dflt)[2], Select(abc, dflt)[3])

\* steinhart_hart.resistance(t, abc): t in Kelvin.
resistance(t, abc, dflt) == Inverse(t, abc, dflt)

\* shh.temperature(r, abc): subtracts 273.15 from the Kelvin value.
shh_temperature(r, abc, dflt) ==
  fsub(fdiv(I(1),
            fadd(fadd(Select(abc, dflt)[1],
                      fmul(Select(abc, dflt)[2], flog(r))),
                 fmul(Select(abc, dflt)[3], fpow(flog(r), 3)))),
       F(27315, -2))

\* shh.resistance(t, abc): adds 273.15 to t.
shh_resistance(t, abc, dflt) == Inverse(fadd(t, F(27315, -2)), abc, dflt)

Modules == {"steinhart_hart", "shh"}
Functions == {"temperature", "resistance"}

\* A call of a module function: [mod, fn, arg, abc].
Call(mod, fn, arg, abc) == [mod |-> mod, fn |-> fn, arg |-> arg, abc |-> abc]

\* What the call returns or raises, with DEFAULT_ABC bound to dflt.
Apply(c, dflt) ==
  IF c.mod = "steinhart_hart"
    THEN (IF c.fn = "temperature" THEN temperature(c.arg, c.abc, dflt)
          ELSE resistance(c.arg, c.abc, dflt))
    ELSE (IF c.fn = "temperature" THEN shh_temperature(c.arg, c.abc, dflt)
          ELSE shh_resistance(c.arg, c.abc, dflt))

(***************************************************************************)
(* The inputs the callers draw from.                                       *)
(***************************************************************************)

\* The most calls a caller chains, each passing on the last result.
MaxChain == 3

\* A second calibrated thermistor, a triple with c = 0 and one with b < 0.
CalibratedTriple == <<F(14, -4), F(237, -6), F(99, -9)>>
TwoTermTriple == <<F(1125, -6), F(2347, -7), F(0, 0)>>
NegBTriple == <<F(1, -3), F(-2, -5), F(855, -10)>>
Triples == {DefaultTriple, CalibratedTriple, TwoTermTriple, NegBTriple}
AbcArgs == {None} \cup Triples

\* -5, 0, 1, 100, 10000, 32727 (close to 0 degrees Celsius with the default
\* coefficients) and 1000000 ohms.
Resistances == {F(-5, 0), F(0, 0), F(1, 0), F(100, 0), F(1, 4), F(32727, 0), F(1, 6)}

\* -273.15, -1, 0 (Python and numpy), 1e-200, 0.01, 25, 298.15 and 1e6.
Temperatures ==
  {F(-27315, -2), F(-1, 0), F(0, 0), AsNp(F(0, 0)), F(1, -200), F(1, -2),
   F(25, 0), F(29815, -2), F(1, 6)}

\* The value argument of the command line.
CliValues == {F(-5, 0), F(25, 0), F(999, 0), F(1000, 0), F(1, 4)}

IsNum(v) == ~IsExc(v)

\* The calls a caller makes with an input of its own, and those the command
\* line makes.
FreshCalls ==
  {Call(m, "temperature", r, abc) :
     m \in Modules, r \in Resistances, abc \in AbcArgs}
  \cup {Call(m, "resistance", t, abc) :
     m \in Modules, t \in Temperatures, abc \in AbcArgs}
  \cup {Call("steinhart_hart", "temperature", fadd(v, F(0, 0)), None) :
     v \in CliValues}
  \cup {Call("steinhart_hart", "resistance", fadd(v, adj), None) :
     v \in CliValues, adj \in {F(0, 0), F(27315, -2)}}

\* The calls that pass a numeric result of table on to a function of the same
\* module with the same abc.
PassOnCalls(table) ==
  {Call(p[1].mod, fn, p[2], p[1].abc) :
     p \in {q \in table : IsNum(q[2])}, fn \in Functions}

\* The calls of chains of at most n + 1 calls, each with its result, as a set
\* of <<call, result>> pairs.
RECURSIVE Chains(_, _)
Chains(n, dflt) ==
  LET earlier == IF n = 0 THEN {} ELSE Chains(n - 1, dflt)
      calls == IF n = 0 THEN FreshCalls
               ELSE PassOnCalls(earlier) \ {p[1] : p \in earlier}
  IN earlier \cup {<<c, Apply(c, dflt)>> : c \in calls}

\* The set of <<call, result>> pairs as a function of the call.
Table(pairs) ==
  [c \in {p[1] : p \in pairs} |-> (CHOOSE p \in pairs : p[1] = c)[2]]

\* Every call the callers below can make, with its result, computed once for
\* the value the module constant has.
Results == [dflt \in {DefaultTriple} |-> Table(Chains(MaxChain - 1, dflt))]

\* The result of call c.
Result(c, dflt) == Results[dflt][c]

\* Python's None, as the value of a call that returns nothing.
Nothing == V("None", 0, 0, 0, FALSE)

\* format(v, ".03f"): v rounded to three decimals (nan and inf print as such).
Format3(v) ==
  IF v.k # "fin" \/ v.e >= -3 THEN v
  ELSE IF -3 - v.e > 8 THEN Zero(v.s, v.np)
  ELSE IF RoundHalfEven(v.m, 10^(-3 - v.e)) = 0 THEN Zero(v.s, v.np)
  ELSE Round(v.s, RoundHalfEven(v.m, 10^(-3 - v.e)), -3, v.np)

(***************************************************************************)
(* The state.                                                              *)
(*   DEFAULT_ABC  the module constant, per module                          *)
(*   self_abc     the Abc object's __abc attribute: [bound, val]           *)
(*   op           the last operation: [name, mod, arg, abc, flags]         *)
(*   ret          what it returned or raised (Nothing: it returned None)   *)
(*   got          the triple the abc getter returned (None: not a getter)  *)
(*   trail        the earlier calls of a chain of calls: <<[fn, arg]>>     *)
(*   out          what the command line printed                            *)
(***************************************************************************)
VARIABLES DEFAULT_ABC, self_abc, op, ret, got, trail, out
vars == <<DEFAULT_ABC, self_abc, op, ret, got, trail, out>>

Op(name, mod, arg, abc, flags) ==
  [name |-> name, mod |-> mod, arg |-> arg, abc |-> abc, flags |-> flags]

Bound(triple) == [bound |-> TRUE, val |-> triple]
Unbound == [bound |-> FALSE, val |-> None]

NoOut ==
  [status |-> "none", forward |-> FALSE, f |-> "", shown |-> <<>>,
   xunit |-> "", yunit |-> ""]

\* The modules are loaded and an Abc object is constructed with abc=None.
Init ==
  /\ DEFAULT_ABC = [m \in Modules |-> DefaultTriple]
  /\ self_abc = Bound(Select(None, DefaultTriple))
  /\ op = Op("Abc.__init__", "steinhart_hart", Nothing, None, {})
  /\ ret = Nothing
  /\ got = None
  /\ trail = <<>>
  /\ out = NoOut

\* temperature(r, abc) of module m.
Temperature(m, r, abc) ==
  /\ op' = Op("temperature", m, r, abc, {})
  /\ ret' = Result(Call(m, "temperature", r, abc), DEFAULT_ABC[m])
  /\ got' = None /\ trail' = <<>> /\ out' = NoOut
  /\ UNCHANGED <<DEFAULT_ABC, self_abc>>

\* resistance(t, abc) of module m.
Resistance(m, t, abc) ==
  /\ op' = Op("resistance", m, t, abc, {})
  /\ ret' = Result(Call(m, "resistance", t, abc), DEFAULT_ABC[m])
  /\ got' = None /\ trail' = <<>> /\ out' = NoOut
  /\ UNCHANGED <<DEFAULT_ABC, self_abc>>

\* The caller passes the number the last call returned to function fn of the
\* same module, with the same abc.
PassOn(fn) ==
  /\ op.name \in Functions
  /\ IsNum(ret)
  /\ Len(trail) < MaxChain - 1
  /\ op' = Op(fn, op.mod, ret, op.abc, {})
  /\ ret' = Result(Call(op.mod, fn, ret, op.abc), DEFAULT_ABC[op.mod])
  /\ trail' = Append(trail, [fn |-> op.name, arg |-> op.arg])
  /\ got' = None /\ out' = NoOut
  /\ UNCHANGED <<DEFAULT_ABC, self_abc>>

\* A constructor that ignores its argument and stores the default.
AbcInitDefault(abc) ==
  /\ self_abc' = Bound(DEFAULT_ABC["steinhart_hart"])
  /\ op' = Op("Abc.__init__", "steinhart_hart", Nothing, abc, {})
  /\ ret' = Nothing
  /\ got' = None /\ trail' = <<>> /\ out' = NoOut
  /\ UNCHANGED DEFAULT_ABC

\* Abc(abc)
AbcInit(abc) ==
  /\ self_abc' = Bound(Select(abc, DEFAULT_ABC["steinhart_hart"]))
  /\ op' = Op("Abc.__init__", "steinhart_hart", Nothing, abc, {})
  /\ ret' = Nothing
  /\ got' = None /\ trail' = <<>> /\ out' = NoOut
  /\ UNCHANGED DEFAULT_ABC

\* A getter that hands the triple out and forgets it.
AbcGetAndForget ==
  /\ op' = Op("Abc.abc", "steinhart_hart", Nothing, None, {})
  /\ ret' = IF self_abc.bound THEN Nothing ELSE Raise("AttributeError")
  /\ got' = self_abc.val
  /\ self_abc' = Unbound
  /\ trail' = <<>> /\ out' = NoOut
  /\ UNCHANGED DEFAULT_ABC

\* obj.abc
AbcGet ==
  /\ op' = Op("Abc.abc", "steinhart_hart", Nothing, None, {})
  /\ ret' = IF self_abc.bound THEN Nothing ELSE Raise("AttributeError")
  /\ got' = self_abc.val
  /\ trail' = <<>> /\ out' = NoOut
  /\ UNCHANGED <<DEFAULT_ABC, self_abc>>

\* obj.abc = abc
AbcSet(abc) ==
  /\ self_abc' = Bound(abc)
  /\ op' = Op("Abc.abc=", "steinhart_hart", Nothing, abc, {})
  /\ ret' = Nothing
  /\ got' = None /\ trail' = <<>> /\ out' = NoOut
  /\ UNCHANGED DEFAULT_ABC

\* del obj.abc
AbcDel ==
  /\ self_abc' = Unbound
  /\ op' = Op("del Abc.abc", "steinhart_hart", Nothing, None, {})
  /\ ret' = IF self_abc.bound THEN Nothing ELSE Raise("AttributeError")
  /\ got' = None /\ trail' = <<>> /\ out' = NoOut
  /\ UNCHANGED DEFAULT_ABC

\* A method that converts with the default and stores it in the object.
AbcTemperatureStoring(r) ==
  /\ op' = Op("Abc.temperature", "steinhart_hart", r, None, {})
  /\ ret' = Result(Call("steinhart_hart", "temperature", r, None),
                   DEFAULT_ABC["steinhart_hart"])
  /\ self_abc' = Bound(DEFAULT_ABC["steinhart_hart"])
  /\ got' = None /\ trail' = <<>> /\ out' = NoOut
  /\ UNCHANGED DEFAULT_ABC

\* obj.temperature(r)
AbcTemperature(r) ==
  /\ op' = Op("Abc.temperature", "steinhart_hart", r, None, {})
  /\ ret' = IF self_abc.bound
              THEN Result(Call("steinhart_hart", "temperature", r,
                               self_abc.val),
                          DEFAULT_ABC["steinhart_hart"])
              ELSE Raise("AttributeError")
  /\ got' = None /\ trail' = <<>> /\ out' = NoOut
  /\ UNCHANGED <<DEFAULT_ABC, self_abc>>

\* obj.resistance(t)
AbcResistance(t) ==
  /\ op' = Op("Abc.resistance", "steinhart_hart", t, None, {})
  /\ ret' = IF self_abc.bound
              THEN Result(Call("steinhart_hart", "resistance", t,
                               self_abc.val),
                          DEFAULT_ABC["steinhart_hart"])
              ELSE Raise("AttributeError")
  /\ got' = None /\ trail' = <<>> /\ out' = NoOut
  /\ UNCHANGED <<DEFAULT_ABC, self_abc>>

\* The command line's flags.
Flags == {"-R", "-T", "-C", "-K", "-x"}

\* A direction taken from the value alone.
ForwardByValue(value, flags) == fle(F(1000, 0), value)

\* forward = True if args.resistance else False if args.temperature
\*           else args.value >= 1000
Forward(value, flags) ==
  IF "-R" \in flags THEN TRUE
  ELSE IF "-T" \in flags THEN FALSE
  ELSE fle(F(1000, 0), value)

\* What the command line prints for result y of converting value.
Printed(value, flags, forward, f, xunit, yunit, y) ==
  IF IsExc(y)
    THEN [status |-> "traceback", forward |-> forward, f |-> f,
          shown |-> <<y>>, xunit |-> xunit, yunit |-> yunit]
  ELSE [status |-> "printed", forward |-> forward, f |-> f,
        shown |-> IF "-x" \in flags THEN <<Format3(y)>>
                  ELSE <<Format3(value), Format3(y)>>,
        xunit |-> xunit, yunit |-> yunit]

\* python3 steinhart_hart.py value flags: argparse refuses two flags of one
\* mutually exclusive group; an exception of the conversion ends the run in
\* a traceback.
Main(value, flags) ==
  LET forward == Forward(value, flags)
      kelvin == "-K" \in flags
      f == IF forward THEN "temperature" ELSE "resistance"
      xunit == IF forward THEN "ohm" ELSE IF kelvin THEN "K" ELSE "C"
      yunit == IF ~forward THEN "ohm" ELSE IF kelvin THEN "K" ELSE "C"
      xadj == IF forward \/ kelvin THEN F(0, 0) ELSE F(27315, -2)
      yadj == IF forward /\ ~kelvin THEN F(-27315, -2) ELSE F(0, 0)
  IN /\ op' = Op("main", "steinhart_hart", value, None, flags)
     /\ ret' = Nothing
     /\ out' =
          IF {"-R", "-T"} \subseteq flags \/ {"-C", "-K"} \subseteq flags
            THEN [NoOut EXCEPT !.status = "usage"]
          ELSE Printed(value, flags, forward, f, xunit, yunit,
                       fadd(Result(Call("steinhart_hart", f,
                                        fadd(value, xadj), None),
                                   DEFAULT_ABC["steinhart_hart"]),
                            yadj))
     /\ got' = None /\ trail' = <<>>
     /\ UNCHANGED <<DEFAULT_ABC, self_abc>>

Next ==
  \/ \E m \in Modules, r \in Resistances, abc \in AbcArgs :
       Temperature(m, r, abc)
  \/ \E m \in Modules, t \in Temperatures, abc \in AbcArgs :
       Resistance(m, t, abc)
  \/ \E fn \in Functions : PassOn(fn)
  \/ \E abc \in AbcArgs : AbcInit(abc)
  \/ AbcGet
  \/ \E abc \in Triples : AbcSet(abc)
  \/ AbcDel
  \/ \E r \in Resistances : AbcTemperature(r)
  \/ \E t \in Temperatures : AbcResistance(t)
  \/ \E value \in CliValues, flags \in SUBSET Flags : Main(value, flags)

Spec == Init /\ [][Next]_vars

(***************************************************************************)
(* Properties.                                                             *)
(***************************************************************************)

\* The module-function call the last operation made.
LastCall == Call(op.mod, op.name, op.arg, op.abc)

\* The triple (1.125e-3, 2.347e-4, 8.55e-8).
Literal == <<F(1125, -6), F(2347, -7), F(855, -10)>>

\* C6: a call of temperature or resistance with abc left out or None returns
\* what the same call returns with (1.125e-3, 2.347e-4, 8.55e-8) passed
\* explicitly; a call with a triple returns the same whatever DEFAULT_ABC is.
C6_Selection ==
  op.name \in Functions =>
    IF op.abc = None
      THEN ret = Apply(Call(op.mod, op.name, op.arg, Literal),
                       DEFAULT_ABC[op.mod])
      ELSE ret = Apply(LastCall, CalibratedTriple)

\* A call without abc has returned a number.
C6_Witness ==
  op.name = "resistance" /\ op.abc = None /\ ret.k = "fin" /\ trail = <<>>

\* C9: the constructor stores its argument (DEFAULT_ABC for None), the
\* setter stores the value assigned, nothing but constructor, setter and
\* deleter touches what is stored, and with X stored Abc.temperature(r)
\* returns temperature(r, abc=X), Abc.resistance(t) returns
\* resistance(t, abc=X) and the getter returns X.
C9_Step ==
  /\ op'.name = "Abc.__init__" =>
       self_abc' = [bound |-> TRUE,
                    val |-> IF op'.abc = None
                              THEN DEFAULT_ABC["steinhart_hart"]
                              ELSE op'.abc]
  /\ op'.name = "Abc.abc=" => self_abc' = [bound |-> TRUE, val |-> op'.abc]
  /\ op'.name \notin {"Abc.__init__", "Abc.abc=", "del Abc.abc"} =>
       self_abc' = self_abc
  /\ (op'.name = "Abc.temperature" /\ self_abc.bound) =>
       ret' = Results[DefaultTriple]
                [Call("steinhart_hart", "temperature", op'.arg, self_abc.val)]
  /\ (op'.name = "Abc.resistance" /\ self_abc.bound) =>
       ret' = Results[DefaultTriple]
                [Call("steinhart_hart", "resistance", op'.arg, self_abc.val)]
  /\ (op'.name = "Abc.abc" /\ self_abc.bound) => got' = self_abc.val
C9_MethodsUseStoredTriple == [][C9_Step]_vars

\* A method has converted with a triple other than the default.
C9_Witness ==
  /\ op.name = "Abc.temperature"
  /\ self_abc = [bound |-> TRUE, val |-> CalibratedTriple]
  /\ ret.k = "fin"

\* C10: with --resistance the command line converts with temperature(), with
\* --temperature it converts with resistance(), with neither it converts
\* with temperature() exactly when value >= 1000; with both flags it
\* converts nothing.
C10_Direction ==
  op.name = "main" =>
    IF "-R" \in op.flags /\ "-T" \in op.flags THEN out.status = "usage"
    ELSE out.status # "usage" =>
      /\ "-R" \in op.flags => out.f = "temperature"
      /\ "-T" \in op.flags => out.f = "resistance"
      /\ op.flags \cap {"-R", "-T"} = {} =>
           (out.f = "temperature" <=> ~flt(op.arg, F(1000, 0)))
      /\ out.forward <=> out.f = "temperature"
      /\ ("-K" \in op.flags /\ out.status = "printed") =>
           out.shown[Len(out.shown)] =
             Format3(Apply(Call("steinhart_hart", out.f, op.arg, None),
                           DEFAULT_ABC["steinhart_hart"]))

\* --temperature has converted a value above 1000 to a resistance.
C10_Witness ==
  /\ op.name = "main"
  /\ "-T" \in op.flags
  /\ op.arg = F(1, 4)
  /\ out.status = "printed"
  /\ out.f = "resistance"

\* C5 as stated: once the object is constructed no operation changes or
\* removes its triple.
C5_Immutable == [][op'.name # "Abc.__init__" => self_abc' = self_abc]_vars

\* C5 as the code has it: the stored triple changes only in the constructor,
\* the abc setter and the abc deleter; the deleter removes it, and the
\* methods of an object without a triple raise AttributeError.
C5_Step ==
  /\ self_abc' # self_abc =>
       op'.name \in {"Abc.__init__", "Abc.abc=", "del Abc.abc"}
  /\ op'.name = "del Abc.abc" => ~self_abc'.bound
  /\ (op'.name \in {"Abc.temperature", "Abc.resistance", "Abc.abc"}
        /\ ~self_abc.bound) => ret'.k = "AttributeError"
C5_ChangedBySetterAndDeleterOnly == [][C5_Step]_vars

\* A method was called on an object whose triple had been deleted.
C5_Witness ==
  op.name = "Abc.resistance" /\ ~self_abc.bound /\ ret.k = "AttributeError"

\* C8: a call of temperature or resistance, module function or method,
\* leaves DEFAULT_ABC and the object's triple as they were, and a module
\* function returns what the table of results has for its arguments,
\* whatever was called before.
C8_Step ==
  op'.name \in {"temperature", "resistance",
                "Abc.temperature", "Abc.resistance"} =>
    /\ DEFAULT_ABC' = DEFAULT_ABC
    /\ self_abc' = self_abc
    /\ op'.name \in Functions =>
         ret' = Results[DefaultTriple]
                  [Call(op'.mod, op'.name, op'.arg, op'.abc)]
C8_NoSideEffects == [][C8_Step]_vars

\* A call was made after two others, with a triple set in the object.
C8_Witness ==
  /\ op.name \in Functions
  /\ Len(trail) = 2
  /\ self_abc = [bound |-> TRUE, val |-> NegBTriple]
  /\ ret.k = "fin"

\* The triple the last call converted with.
Coefficients == IF op.abc = None THEN DEFAULT_ABC[op.mod] ELSE op.abc

\* The Kelvin temperature that module mod takes t for, and the one the last
\* call of resistance inverted.
KelvinOf(mod, t) == IF mod = "shh" THEN fadd(t, F(27315, -2)) ELSE t
Kelvin == KelvinOf(op.mod, op.arg)

\* The terms of resistance() for a Kelvin temperature tk and a triple:
\* x, (b / (3 * c)) ** 3, the number under the square root, and y - x / 2.
TermX(tk, abc) == fdiv(fsub(abc[1], fdiv(I(1), tk)), abc[3])
Cube(abc) == fpow(fdiv(abc[2], fmul(I(3), abc[3])), 3)
Radicand(tk, abc) ==
  fadd(Cube(abc), fdiv(fpow(TermX(tk, abc), 2), I(4)))
LowerTerm(tk, abc) ==
  fsub(fsqrt(Radicand(tk, abc)), fdiv(TermX(tk, abc), I(2)))

Positive(v) == v.k \in {"fin", "inf"} /\ v.s = 1
Negative(v) == v.k \in {"fin", "inf"} /\ v.s = -1
NonPositive(v) == v.k = "zero" \/ Negative(v)

\* What a call can end in: a float or one of two arithmetic exceptions.
Outcomes == {"fin", "zero", "inf", "nan", "ZeroDivisionError", "OverflowError"}

\* C1 as stated: temperature(r) with r <= 0 ends in InvalidInput.
C1_InvalidInput ==
  (op.name = "temperature" /\ NonPositive(op.arg)) => ret.k = "InvalidInput"

\* C1 as the code has it: temperature(r) with r <= 0 raises nothing and
\* returns a float. For r < 0 it is NaN. For r = 0 it is NaN when b and c do
\* not have the same sign; with b > 0 and c > 0 it is -0.0 in steinhart_hart
\* and -273.15 in shh.
C1_ReturnsWithoutValidation ==
  (op.name = "temperature" /\ NonPositive(op.arg)) =>
    /\ ~IsExc(ret)
    /\ Negative(op.arg) => ret.k = "nan"
    /\ (op.arg.k = "zero" /\ Coefficients[2].s # Coefficients[3].s) =>
         ret.k = "nan"
    /\ (op.arg.k = "zero" /\ Positive(Coefficients[2])
          /\ Positive(Coefficients[3])) =>
         IF op.mod = "shh" THEN ret = AsNp(F(-27315, -2))
         ELSE ret = Zero(-1, TRUE)

\* temperature(-5) has returned NaN.
C1_Witness ==
  op.name = "temperature" /\ op.arg = F(-5, 0) /\ ret.k = "nan"

\* C2 as stated: resistance(t) with t <= 0 ends in InvalidInput.
C2_InvalidInput ==
  (op.name = "resistance" /\ NonPositive(op.arg)) => ret.k = "InvalidInput"

\* C2 as the code has it: resistance(t) with t <= 0 is not validated. It
\* raises ZeroDivisionError exactly when c = 0 or the Kelvin temperature
\* (t, and t + 273.15 in shh) is a Python float equal to 0; a numpy zero
\* gives NaN unless (b / (3 * c)) ** 3 overflows; any other outcome is a
\* float or an OverflowError, and with DEFAULT_ABC a Kelvin temperature of -1
\* or below gives a finite positive float.
C2_ReturnsWithoutValidation ==
  (op.name = "resistance" /\ NonPositive(op.arg)) =>
    /\ ret.k \in Outcomes
    /\ ret.k = "ZeroDivisionError" <=>
         (Coefficients[3].k = "zero" \/ (Kelvin.k = "zero" /\ ~Kelvin.np))
    /\ (Kelvin.k = "zero" /\ Kelvin.np /\ Coefficients[3].k # "zero"
          /\ ~IsExc(Cube(Coefficients))) =>
         ret.k = "nan"
    /\ (Coefficients = Literal /\ Kelvin.k = "fin"
          /\ fle(Kelvin, F(-1, 0))) =>
         ret.k = "fin" /\ ret.s = 1

\* resistance(-1) has returned a positive float.
C2_Witness ==
  /\ op.name = "resistance" /\ op.mod = "steinhart_hart"
  /\ op.arg = F(-1, 0) /\ op.abc = None
  /\ ret.k = "fin" /\ ret.s = 1

\* C3 as stated: in every module temperature(r) is the Kelvin value
\* 1 / (a + b ln r + c ln^3 r) and resistance(t) inverts it at t, with no
\* 273.15 added or subtracted.
C3_KelvinInEveryModule ==
  /\ (op.name = "temperature" /\ Positive(op.arg)) =>
       ret = temperature(op.arg, op.abc, DEFAULT_ABC[op.mod])
  /\ op.name = "resistance" =>
       ret = Inverse(op.arg, op.abc, DEFAULT_ABC[op.mod])

Tolerance == F(1, -5)

\* |u - v| <= Tolerance * |scale|
Magnitude(v) == IF IsNum(v) /\ v.s = -1 THEN fneg(v) ELSE v
Close(u, v, scale) ==
  /\ u.k \in {"fin", "zero"}
  /\ fle(Magnitude(fsub(u, v)), fmul(Tolerance, Magnitude(scale)))

InRange(r) == fle(F(100, 0), r) /\ fle(r, F(1, 6))

\* The last call was resistance(temperature(r)) for an r of the range.
BackToResistance ==
  /\ op.name = "resistance" /\ Len(trail) >= 1
  /\ trail[Len(trail)].fn = "temperature"
  /\ InRange(trail[Len(trail)].arg)

\* The last call was temperature(resistance(t)) for the image t of an r of
\* the range.
BackToTemperature ==
  /\ op.name = "temperature" /\ Len(trail) >= 2
  /\ trail[Len(trail)].fn = "resistance"
  /\ trail[Len(trail) - 1].fn = "temperature"
  /\ InRange(trail[Len(trail) - 1].arg)

====
